---- MODULE Spec2Model ----
(***************************************************************************)
(* PBI AutoGov: the removal-decision engine (optimization_pipeline.py,     *)
(* functions 5 and 6 and the two SQL generators) and the structural        *)
(* protection and cascading mutation of the TMDL table files               *)
(* (tmdl_cleanup.py).                                                      *)
(*                                                                         *)
(* A table file is modelled at the level of its blocks: which column and   *)
(* measure blocks, hierarchy blocks and variation sub-blocks it still      *)
(* holds, and whether it carries the showAsVariationsOnly line.  What a    *)
(* block says (its levels, its variation target, its sortByColumn, its     *)
(* semantic link, the columns its formula names) never changes, and is     *)
(* kept apart in the variable shape.                                       *)
(***************************************************************************)
EXTENDS Integers, FiniteSets, Sequences, TLC

\* ------------------------------------------------------------------ bounds
\* How many times run_tmdl_cleanup is run on the same tables directory.
MaxRuns == 2
\* How many dependency declarations (variation, sortByColumn, semantic link,
\* formula reference) the table files hold.
MaxEdges == 2

\* ---------------------------------------------------------------- universe
Tables == {"D", "L"}
Cols == {<<"D", "Date">>, <<"D", "WeeksOpen">>, <<"L", "Year">>, <<"L", "Month">>}
\* The hierarchy each table file may declare, as <<table, hierarchy name>>.
Hiers == {<<"D", "DH">>, <<"L", "LH">>}

NoFile == [exists |-> FALSE]
None == "None"

\* SourceColumn values of the catalog.
Measure == "[Measure]"
Calculated == ""
Synthetic == "[Value]"
Imported == "src"
SrcKinds == {Imported, Calculated, Measure, Synthetic}

ColsOf(t) == {k \in Cols : k[1] = t}
HiersOf(t) == {h \in Hiers : h[1] = t}

\* str.strip().lower() on the names of the universe.
LowerMap ==
    [D |-> "d", L |-> "l", Date |-> "date", WeeksOpen |-> "weeksopen",
     Year |-> "year", Month |-> "month",
     Opp |-> "opp", Own |-> "own", Amount |-> "amount", Cost |-> "cost",
     Margin |-> "margin", DATE |-> "date"] @@ ("Won?" :> "won?")

Lower(s) == IF s \in DOMAIN LowerMap THEN LowerMap[s] ELSE s

\* table_norm + "$$" + col_norm
NormKey(k) == <<Lower(k[1]), Lower(k[2])>>

\* The sequence of the elements of a set of tables in sorted (name) order.
RECURSIVE SortedSeq(_)
SortedSeq(S) ==
    IF S = {} THEN << >>
    ELSE LET m == CHOOSE x \in S : \A y \in S : (x = "D") \/ (y # "D")
         IN <<m>> \o SortedSeq(S \ {m})

RECURSIVE SeqOfSet(_)
SeqOfSet(S) ==
    IF S = {} THEN << >>
    ELSE LET m == CHOOSE x \in S : TRUE IN <<m>> \o SeqOfSet(S \ {m})

Range(s) == {s[i] : i \in 1..Len(s)}

VARIABLES
    catalog,      \* Function 3/4 output: per column SourceColumn, Used_in_PBI, Used_in_Relationship
    protection,   \* protected_security_tables and protected_view_columns (lower-cased)
    f5,           \* Function5_Output: per column Remove_column and Protected
    f6,           \* Function6_Output: per table Remove_table
    keptTables,   \* kept_tables returned by function 6
    dropTables,   \* DROP_TABLES.sql
    dropCols,     \* DROP_COLUMNS.sql
    shape,        \* what the blocks of the table files declare
    files,        \* tables/*.tmdl
    bak,          \* tables/*.tmdl.bak
    mode,         \* run_tmdl_cleanup's mode
    toRemoveSet,  \* to_remove_set: the candidates the analyses are given
    prot,         \* the four structural protection sets
    cand,         \* to_remove after the protected rows are taken out
    removed,      \* all_removed
    skipped,      \* all_skipped
    deletedHier,  \* all_deleted_hierarchies
    queue,        \* the files the current loop has still to visit
    pending,      \* the rewrite in progress: file, new lines, backup rule
    pc,           \* where the pipeline stands
    run,          \* how many times run_tmdl_cleanup was started
    hist,         \* observations of the current run (not read by the program)
    usage,        \* the rows of the report metadata sheet
    f1out,        \* Function1_Output: usage counts per table and column
    f3out,        \* Function3_Output: Used_in_PBI per row of the semantic master
    relations,    \* the Relations sheet of the catalog
    f2out,        \* Function2_Output
    error         \* the exception that ended the run, if any

vars == <<catalog, protection, f5, f6, keptTables, dropTables, dropCols, shape,
          files, bak, mode, toRemoveSet, prot, cand, removed, skipped,
          deletedHier, queue, pending, pc, run, hist,
          usage, f1out, f3out, relations, f2out, error>>

decisionVars == <<f5, f6, keptTables, dropTables, dropCols>>
inputVars == <<catalog, protection, shape, usage, f1out, f3out, relations, f2out, error>>
cleanupVars == <<files, bak, mode, toRemoveSet, prot, cand, removed, skipped,
                 deletedHier, queue, pending, run, hist>>

\* ------------------------------------------------------- decision engine

\* Protected = table_norm in protected_tables or key_norm in protected_columns
Function5Protected(k) ==
    \/ Lower(k[1]) \in protection.tables
    \/ NormKey(k) \in protection.columns

\* Remove_column without the override (a protected row keeps its computed flag).
Function5RemoveNoOverride(k) ==
    ~catalog[k].pbi /\ ~catalog[k].rel

\* Remove_column = Used_in_PBI = 0 and Used_in_Relationship = 0, then
\* Protected = Yes overrides Remove_column to No.
Function5Remove(k) ==
    IF Function5Protected(k) THEN FALSE
    ELSE ~catalog[k].pbi /\ ~catalog[k].rel

F5 ==
    /\ pc = "f5"
    /\ f5' = [k \in Cols |->
                [remove |-> Function5Remove(k), protected |-> Function5Protected(k)]]
    /\ pc' = "f6"
    /\ UNCHANGED <<f6, keptTables, dropTables, dropCols>>
    /\ UNCHANGED inputVars
    /\ UNCHANGED cleanupVars

\* Remove_table when one flagged column is enough.
Function6RemoveTableAny(t) ==
    /\ \E k \in ColsOf(t) : f5[k].remove
    /\ ~(protection.tables # {} /\ Lower(t) \in protection.tables)

\* Remove_table = all(_remove_col_bool) over the table's group, then the
\* protected security tables are set back to No.
Function6RemoveTable(t) ==
    /\ \A k \in ColsOf(t) : f5[k].remove
    /\ ~(protection.tables # {} /\ Lower(t) \in protection.tables)

F6 ==
    /\ pc = "f6"
    /\ f6' = [t \in Tables |-> Function6RemoveTable(t)]
    /\ keptTables' = {t \in Tables : ~Function6RemoveTable(t)}
    /\ pc' = "drop_tables"
    /\ UNCHANGED <<f5, dropTables, dropCols>>
    /\ UNCHANGED inputVars
    /\ UNCHANGED cleanupVars

GenerateDropTableSql ==
    /\ pc = "drop_tables"
    /\ dropTables' = {t \in Tables : f6[t]}
    /\ pc' = "drop_columns"
    /\ UNCHANGED <<f5, f6, keptTables, dropCols>>
    /\ UNCHANGED inputVars
    /\ UNCHANGED cleanupVars

\* The rows generate_drop_column_sql keeps: table in kept_tables,
\* Remove_column = yes, SourceColumn neither empty nor "[Measure]".
DropColumnRows ==
    {k \in Cols :
        /\ k[1] \in keptTables
        /\ f5[k].remove
        /\ catalog[k].src # Calculated
        /\ catalog[k].src # Measure}

\* One statement per row; the column named is the SourceColumn.
DropColumnStatement(k) ==
    [table |-> k[1], column |-> k[2], dbcol |-> catalog[k].src]

GenerateDropColumnSql ==
    /\ pc = "drop_columns"
    /\ dropCols' = {DropColumnStatement(k) : k \in DropColumnRows}
    /\ pc' = "cleanup"
    /\ UNCHANGED <<f5, f6, keptTables, dropTables>>
    /\ UNCHANGED inputVars
    /\ UNCHANGED cleanupVars

\* --------------------------------------------------------- the table files

\* The declaration keyword of an item's block, as generate_catalog reads it
\* back into SourceColumn: a measure, a calculated column (column X = DAX),
\* or a column with a sourceColumn line.
DeclOf(src) ==
    IF src = Measure THEN "measure"
    ELSE IF src = Calculated THEN "calc" ELSE "column"

\* The dependency declarations a model may hold.
EdgeUniverse ==
    { [type |-> "variation", from |-> <<"D", "Date">>, to |-> <<"L", "LH">>],
      [type |-> "variation", from |-> <<"D", "WeeksOpen">>, to |-> <<"L", "LH">>],
      [type |-> "sortBy", from |-> <<"L", "Year">>, to |-> <<"L", "Month">>],
      [type |-> "link", from |-> <<"L", "Month">>, to |-> <<"D", "Date">>],
      [type |-> "dax", from |-> <<"D", "WeeksOpen">>, to |-> <<"d", "DATE">>],
      [type |-> "dax", from |-> <<"D", "WeeksOpen">>, to |-> <<"L", "Month">>],
      [type |-> "dax", from |-> <<"L", "Month">>, to |-> <<"L", "Year">>] }

EdgeChoices == {E \in SUBSET EdgeUniverse : Cardinality(E) <= MaxEdges}

\* The level columns of the two hierarchies ({}: the hierarchy is not declared).
LevelChoices ==
    { [h \in Hiers |-> IF h[1] = "D" THEN d ELSE l] :
        d \in { {}, {<<"D", "Date">>, <<"D", "WeeksOpen">>} },
        l \in { {}, {<<"L", "Year">>}, {<<"L", "Year">>, <<"L", "Month">>} } }

ProtectionChoices ==
    { [tables |-> {}, columns |-> {}],
      [tables |-> {"l"}, columns |-> {}],
      [tables |-> {}, columns |-> {<<"d", "weeksopen">>}] }

Edges(type) == {e \in shape.edges : e.type = type}

\* The file of table t as generate_catalog saw it: every catalog item has its
\* block, a declared hierarchy has its block, a column with a variation has
\* the sub-block, and a table some variation points to is marked
\* showAsVariationsOnly.
InitialFile(t, lv, E) ==
    [ exists |-> TRUE,
      marker |-> \E e \in E : e.type = "variation" /\ e.to[1] = t,
      items  |-> ColsOf(t),
      hiers  |-> {h \in HiersOf(t) : lv[h] # {}},
      vars   |-> {k \in ColsOf(t) : \E e \in E : e.type = "variation" /\ e.from = k} ]

\* A well-formed model: a variation points to a declared hierarchy; only a
\* column has a variation, a sortByColumn, an annotation, or is a level, and
\* only a column is a sort or link target; only a calculated column or a
\* measure has a formula.
ValidShape(decl, lv, E) ==
    /\ \A e \in E :
        /\ e.type = "variation" => lv[e.to] # {} /\ decl[e.from] # "measure"
        /\ e.type \in {"sortBy", "link"} =>
              decl[e.from] # "measure" /\ decl[e.to] # "measure"
        /\ e.type = "dax" => decl[e.from] \in {"calc", "measure"}
    /\ \A h \in Hiers : \A k \in lv[h] : decl[k] # "measure"

NoHist ==
    [ start |-> [t \in Tables |-> NoFile], bakStart |-> [t \in Tables |-> NoFile],
      edited |-> {}, bakWrites |-> [t \in Tables |-> 0], prevMode |-> None ]

NoPending == [file |-> None]

NoOutput == [written |-> FALSE, rows |-> << >>]
NoError == [raised |-> FALSE, rows |-> {}]

\* The liveness stages hold nothing: their outputs are given in catalog.
NoLiveness ==
    /\ usage = << >>
    /\ f1out = {}
    /\ f3out = {}
    /\ relations = << >>
    /\ f2out = NoOutput
    /\ error = NoError

\* Nothing has run yet.
InitIdle ==
    /\ bak = [t \in Tables |-> NoFile]
    /\ f5 = [k \in Cols |-> [remove |-> FALSE, protected |-> FALSE]]
    /\ f6 = [t \in Tables |-> FALSE]
    /\ keptTables = {}
    /\ dropTables = {}
    /\ dropCols = {}
    /\ mode = None
    /\ toRemoveSet = {}
    /\ prot = [hier |-> {}, link |-> {}, dax |-> {}, sib |-> {}]
    /\ cand = {}
    /\ removed = << >>
    /\ skipped = << >>
    /\ deletedHier = {}
    /\ queue = << >>
    /\ pending = NoPending
    /\ run = 0
    /\ hist = NoHist

InitState(srcs, lv, E) ==
    /\ shape = [decl |-> [k \in Cols |-> DeclOf(srcs[k])], levels |-> lv, edges |-> E]
    /\ files = [t \in Tables |-> InitialFile(t, lv, E)]
    /\ InitIdle

InitRest(srcs, lv, E) ==
    /\ InitState(srcs, lv, E)
    /\ pc = "f5"
    /\ NoLiveness

\* Inputs of the decision engine alone: any storage kind, both liveness
\* flags and both protection lists free; the files declare no dependency.
DecisionSrcChoices ==
    { [k \in Cols |->
         IF k = <<"D", "Date">> THEN Imported
         ELSE IF k = <<"D", "WeeksOpen">> THEN w
         ELSE IF k = <<"L", "Year">> THEN y ELSE m] :
        w \in {Calculated, Measure}, y \in {Imported, Synthetic}, m \in SrcKinds }

DecisionProtectionChoices ==
    { [tables |-> ts, columns |-> cs] :
        ts \in SUBSET {"l"}, cs \in SUBSET {<<"d", "date">>} }

InitDecision ==
    \E srcs \in DecisionSrcChoices, pbi \in [Cols -> BOOLEAN],
       rel \in [Cols -> BOOLEAN], pr \in DecisionProtectionChoices :
        /\ catalog = [k \in Cols |-> [src |-> srcs[k], pbi |-> pbi[k], rel |-> rel[k]]]
        /\ protection = pr
        /\ InitRest(srcs, [h \in Hiers |-> {}], {})

NextDecision ==
    \/ F5
    \/ F6
    \/ GenerateDropTableSql
    \/ GenerateDropColumnSql

SpecDecision == InitDecision /\ [][NextDecision]_vars

\* ------------------------------------------------- structural protection

Modes == {"tmdl_only", "all"}

\* The rows of the catalog in sheet order.
ColSeq == << <<"D", "Date">>, <<"D", "WeeksOpen">>, <<"L", "Year">>, <<"L", "Month">> >>

\* The rows of ColSeq that are in S, in order.
RowsIn(S) == SelectSeq(ColSeq, LAMBDA k : k \in S)

PresentItems(fs) == UNION {IF fs[t] = NoFile THEN {} ELSE fs[t].items : t \in Tables}
PresentColumns(fs) == {k \in PresentItems(fs) : shape.decl[k] # "measure"}
PresentHiers(fs) == UNION {IF fs[t] = NoFile THEN {} ELSE fs[t].hiers : t \in Tables}
PresentVars(fs) == UNION {IF fs[t] = NoFile THEN {} ELSE fs[t].vars : t \in Tables}

\* Step 1: the defaultHierarchy of every variation found under a column
\* whose key is not in to_remove_set.
ProtectedHierarchies(fs, trs) ==
    {e.to : e \in {x \in Edges("variation") : x.from \in PresentVars(fs) /\ x.from \notin trs}}

\* Step 2: the level columns of the hierarchy blocks named in Step 1.
HierarchyLevelColumns(fs, ph) ==
    UNION {shape.levels[h] : h \in PresentHiers(fs) \cap ph}

\* Step 3: the sortByColumn target of a column that is protected by Step 2
\* or not a candidate, when the target is a candidate not yet protected.
SortTargets(fs, trs, protected) ==
    {e.to : e \in {x \in Edges("sortBy") :
                      /\ x.from \in PresentColumns(fs)
                      /\ (x.from \in protected \/ x.from \notin trs)
                      /\ x.to \in trs
                      /\ x.to \notin protected}}

FindProtectedHierarchyColumns(fs, trs) ==
    LET ph == ProtectedHierarchies(fs, trs)
    IN  IF ph = {} THEN {}
        ELSE LET p == HierarchyLevelColumns(fs, ph)
             IN  p \cup SortTargets(fs, trs, p)

\* The semantic-link analysis without the test that the annotated column is kept.
FindProtectedSemanticLinkColumnsAnySource(fs, trs) ==
    {e.to : e \in {x \in Edges("link") :
                      /\ x.from \in PresentColumns(fs)
                      /\ x.to \in trs}}

\* The LinkTarget of every __PBI_SemanticLinks annotation under a column
\* whose key is not in to_remove_set, when the target is a candidate.
FindProtectedSemanticLinkColumns(fs, trs) ==
    {e.to : e \in {x \in Edges("link") :
                      /\ x.from \in PresentColumns(fs)
                      /\ x.from \notin trs
                      /\ x.to \in trs}}

\* kept_calc_set and kept_measure_set: the Function 5 rows with an empty
\* SourceColumn, or "[Measure]", and Remove_column = no.
KeptCalcSet == {k \in Cols : catalog[k].src = Calculated /\ ~f5[k].remove}
KeptMeasureSet == {k \in Cols : catalog[k].src = Measure /\ ~f5[k].remove}

\* The declaration is a kept calculated column or a kept measure.
IsKeptFormula(fs, k) ==
    /\ k \in PresentItems(fs)
    /\ \/ shape.decl[k] = "calc" /\ k \in KeptCalcSet
       \/ shape.decl[k] = "measure" /\ k \in KeptMeasureSet

\* The formula analysis matching the reference against the key as written.
FindProtectedDaxReferenceColumnsExactCase(fs, trs) ==
    IF KeptCalcSet = {} /\ KeptMeasureSet = {} THEN {}
    ELSE {k \in trs :
            \E e \in Edges("dax") : IsKeptFormula(fs, e.from) /\ e.to = k}

\* The candidates whose lower-cased key a kept formula names.
FindProtectedDaxReferenceColumns(fs, trs) ==
    IF KeptCalcSet = {} /\ KeptMeasureSet = {} THEN {}
    ELSE {k \in trs :
            \E e \in Edges("dax") :
                IsKeptFormula(fs, e.from) /\ NormKey(e.to) = NormKey(k)}

\* The sibling analysis asking for every level column to be kept.
FindProtectedHierarchyLevelSiblingsAllKept(fs, trs) ==
    UNION { IF \A c \in shape.levels[h] : c \notin trs
            THEN shape.levels[h] \cap trs ELSE {}
            : h \in PresentHiers(fs) }

\* For every hierarchy block with a level column that is no candidate, the
\* level columns that are candidates.
FindProtectedHierarchyLevelSiblings(fs, trs) ==
    UNION { IF \E c \in shape.levels[h] : c \notin trs
            THEN shape.levels[h] \cap trs ELSE {}
            : h \in PresentHiers(fs) }

\* --- the hierarchy analysis on its own, over a table with a chain of
\* --- sortByColumn declarations.
SortCols == Cols \cup {<<"L", "MonthNo">>}

SortEdgeUniverse ==
    { [type |-> "variation", from |-> <<"D", "Date">>, to |-> <<"L", "LH">>],
      [type |-> "sortBy", from |-> <<"L", "Year">>, to |-> <<"L", "Month">>],
      [type |-> "sortBy", from |-> <<"L", "Month">>, to |-> <<"L", "MonthNo">>],
      [type |-> "sortBy", from |-> <<"L", "Year">>, to |-> <<"L", "MonthNo">>] }

SortLevelChoices ==
    { [h \in Hiers |-> IF h[1] = "D" THEN {} ELSE l] :
        l \in { {<<"L", "Year">>}, {<<"L", "Year">>, <<"L", "Month">>} } }

InitHierarchy ==
    \E lv \in SortLevelChoices, E \in SUBSET SortEdgeUniverse :
        /\ catalog = [k \in Cols |-> [src |-> Imported, pbi |-> FALSE, rel |-> FALSE]]
        /\ protection = [tables |-> {}, columns |-> {}]
        /\ shape = [decl |-> [k \in SortCols |-> "column"], levels |-> lv, edges |-> E]
        /\ files = [t \in Tables |->
                      [ exists |-> TRUE,
                        marker |-> \E e \in E : e.type = "variation" /\ e.to[1] = t,
                        items  |-> {k \in SortCols : k[1] = t},
                        hiers  |-> {h \in HiersOf(t) : lv[h] # {}},
                        vars   |-> {k \in SortCols :
                                     k[1] = t /\ \E e \in E : e.type = "variation" /\ e.from = k} ]]
        /\ InitIdle
        /\ pc = "hierarchy"
        /\ NoLiveness

\* _find_protected_hierarchy_columns applied to a set of candidates.
ApplyFindProtectedHierarchyColumns ==
    /\ pc = "hierarchy"
    /\ \E trs \in SUBSET SortCols :
          /\ toRemoveSet' = trs
          /\ prot' = [hier |-> FindProtectedHierarchyColumns(files, trs),
                      link |-> {}, dax |-> {}, sib |-> {}]
    /\ pc' = "hierarchy_done"
    /\ UNCHANGED <<files, bak, mode, cand, removed, skipped, deletedHier, queue,
                   pending, run, hist>>
    /\ UNCHANGED decisionVars
    /\ UNCHANGED inputVars

NextHierarchy == ApplyFindProtectedHierarchyColumns

SpecHierarchy == InitHierarchy /\ [][NextHierarchy]_vars

\* --- the same four analyses, with the order of tables_path.glob and the
\* --- iteration order of to_remove_set made explicit.
TableOrders == { <<"D", "L">>, <<"L", "D">> }
CandidateOrders ==
    { o \in [1..Cardinality(Cols) -> Cols] :
        \A i, j \in 1..Cardinality(Cols) : i # j => o[i] # o[j] }

ItemsIn(fs, t) == IF fs[t] = NoFile THEN {} ELSE fs[t].items
ColumnsIn(fs, t) == {k \in ItemsIn(fs, t) : shape.decl[k] # "measure"}
HiersIn(fs, t) == IF fs[t] = NoFile THEN {} ELSE fs[t].hiers
VarsIn(fs, t) == IF fs[t] = NoFile THEN {} ELSE fs[t].vars

\* Step 1, file by file: protected_hierarchies after the first n files.
RECURSIVE ProtectedHierarchiesInOrder(_, _, _, _)
ProtectedHierarchiesInOrder(fs, trs, fo, n) ==
    IF n = 0 THEN {}
    ELSE ProtectedHierarchiesInOrder(fs, trs, fo, n - 1) \cup
         {e.to : e \in {x \in Edges("variation") :
                           x.from \in VarsIn(fs, fo[n]) /\ x.from \notin trs}}

\* Step 2, file by file: protected after the first n files.
RECURSIVE HierarchyLevelColumnsInOrder(_, _, _, _)
HierarchyLevelColumnsInOrder(fs, ph, fo, n) ==
    IF n = 0 THEN {}
    ELSE HierarchyLevelColumnsInOrder(fs, ph, fo, n - 1) \cup
         UNION {shape.levels[h] : h \in HiersIn(fs, fo[n]) \cap ph}

\* Step 3, file by file: newly_protected after the first n files; protected
\* is the result of Step 2 and is not written to during the loop.
RECURSIVE SortTargetsInOrder(_, _, _, _, _)
SortTargetsInOrder(fs, trs, protected, fo, n) ==
    IF n = 0 THEN {}
    ELSE SortTargetsInOrder(fs, trs, protected, fo, n - 1) \cup
         {e.to : e \in {x \in Edges("sortBy") :
                           /\ x.from \in ColumnsIn(fs, fo[n])
                           /\ (x.from \in protected \/ x.from \notin trs)
                           /\ x.to \in trs
                           /\ x.to \notin protected}}

FindProtectedHierarchyColumnsInOrder(fs, trs, fo) ==
    LET ph == ProtectedHierarchiesInOrder(fs, trs, fo, Len(fo))
    IN  IF ph = {} THEN {}
        ELSE LET p == HierarchyLevelColumnsInOrder(fs, ph, fo, Len(fo))
             IN  p \cup SortTargetsInOrder(fs, trs, p, fo, Len(fo))

RECURSIVE FindProtectedSemanticLinkColumnsInOrder(_, _, _, _)
FindProtectedSemanticLinkColumnsInOrder(fs, trs, fo, n) ==
    IF n = 0 THEN {}
    ELSE FindProtectedSemanticLinkColumnsInOrder(fs, trs, fo, n - 1) \cup
         {e.to : e \in {x \in Edges("link") :
                           /\ x.from \in ColumnsIn(fs, fo[n])
                           /\ x.from \notin trs
                           /\ x.to \in trs}}

\* for orig_key in to_remove_set: ... break -- the first candidate, in the
\* iteration order co, whose lower-cased key is the lower-cased reference.
FirstMatch(co, trs, ref) ==
    LET m == {i \in DOMAIN co : co[i] \in trs /\ NormKey(co[i]) = NormKey(ref)}
    IN  IF m = {} THEN {} ELSE {co[CHOOSE i \in m : \A j \in m : i <= j]}

RECURSIVE DaxReferencesInOrder(_, _, _, _, _)
DaxReferencesInOrder(fs, trs, fo, co, n) ==
    IF n = 0 THEN {}
    ELSE DaxReferencesInOrder(fs, trs, fo, co, n - 1) \cup
         UNION {FirstMatch(co, trs, e.to) :
                  e \in {x \in Edges("dax") :
                           /\ x.from \in ItemsIn(fs, fo[n])
                           /\ \/ shape.decl[x.from] = "calc" /\ x.from \in KeptCalcSet
                              \/ shape.decl[x.from] = "measure" /\ x.from \in KeptMeasureSet}}

FindProtectedDaxReferenceColumnsInOrder(fs, trs, fo, co) ==
    IF KeptCalcSet = {} /\ KeptMeasureSet = {} THEN {}
    ELSE DaxReferencesInOrder(fs, trs, fo, co, Len(fo))

RECURSIVE FindProtectedHierarchyLevelSiblingsInOrder(_, _, _, _)
FindProtectedHierarchyLevelSiblingsInOrder(fs, trs, fo, n) ==
    IF n = 0 THEN {}
    ELSE FindProtectedHierarchyLevelSiblingsInOrder(fs, trs, fo, n - 1) \cup
         UNION { IF \E c \in shape.levels[h] : c \notin trs
                 THEN shape.levels[h] \cap trs ELSE {}
                 : h \in HiersIn(fs, fo[n]) }

\* protected_cols without the sibling analysis.
ProtectedColsNoSiblings(P) == P.hier \cup P.link \cup P.dax

\* protected_cols before the three later analyses are merged into it.
ProtectedColsHierarchyOnly(P) == P.hier

\* protected_cols: the union the candidates are filtered by.
ProtectedCols(P) == P.hier \cup P.link \cup P.dax \cup P.sib

\* The candidates of a mode, whatever Function 5 decided.
SelectedAnyVerdict(m) ==
    {k \in Cols : m = "tmdl_only" => catalog[k].src \in {Calculated, Measure}}

\* to_remove: the rows with Remove_column = yes; in mode tmdl_only only the
\* measures and the calculated columns among them.
Selected(m) ==
    {k \in Cols :
        /\ f5[k].remove
        /\ m = "tmdl_only" => catalog[k].src \in {Calculated, Measure}}

\* _classify_item
ItemType(k) ==
    IF catalog[k].src = Measure THEN "Measure"
    ELSE IF catalog[k].src = Calculated THEN "Calculated Column"
    ELSE "Imported Column"

BlockType(k) == IF catalog[k].src = Measure THEN "measure" ELSE "column"

Item(k) ==
    [table |-> k[1], name |-> k[2], item_type |-> ItemType(k), block_type |-> BlockType(k)]

SkippedItem(k, reason) ==
    [table |-> k[1], name |-> k[2], item_type |-> ItemType(k),
     block_type |-> BlockType(k), reason |-> reason]

\* The reason given to a protected row (its words before the dash).
ProtectedReason(k, P) ==
    IF k \in P.dax THEN "DAX reference"
    ELSE IF k \in P.link THEN "SemanticLink target"
    ELSE IF k \in P.sib THEN "Hierarchy level sibling"
    ELSE "Supports Date Hierarchy"

\* The records of the protected rows, in sheet order.
ProtectedRows(s, P) ==
    [i \in 1..Len(s) |-> SkippedItem(s[i], ProtectedReason(s[i], P))]

\* run_tmdl_cleanup up to the loop over the table files: selection, the four
\* analyses, the filter, the two early returns, the protected rows' records.
StartCleanup(m) ==
    /\ pc \in {"cleanup", "done"}
    /\ run < MaxRuns
    /\ run > 0 => m \in {mode, "all"}
    /\ LET sel == Selected(m)
           P   == [hier |-> FindProtectedHierarchyColumns(files, sel),
                   link |-> FindProtectedSemanticLinkColumns(files, sel),
                   dax  |-> FindProtectedDaxReferenceColumns(files, sel),
                   sib  |-> FindProtectedHierarchyLevelSiblings(files, sel)]
           left == sel \ ProtectedCols(P)
       IN  /\ mode' = m
           /\ run' = run + 1
           /\ hist' = [start |-> files, bakStart |-> bak, edited |-> {},
                       bakWrites |-> [t \in Tables |-> 0], prevMode |-> mode]
           /\ removed' = << >>
           /\ deletedHier' = {}
           /\ pending' = NoPending
           /\ IF sel = {}
              THEN /\ toRemoveSet' = {}
                   /\ prot' = [hier |-> {}, link |-> {}, dax |-> {}, sib |-> {}]
                   /\ cand' = {}
                   /\ skipped' = << >>
                   /\ queue' = << >>
                   /\ pc' = "done"
              ELSE /\ toRemoveSet' = sel
                   /\ prot' = P
                   /\ cand' = left
                   /\ IF left = {}
                      THEN /\ skipped' = << >>
                           /\ queue' = << >>
                           /\ pc' = "done"
                      ELSE /\ skipped' =
                                ProtectedRows(RowsIn(sel \cap ProtectedCols(P)), P)
                           /\ queue' = SortedSeq({k[1] : k \in left})
                           /\ pc' = "main"
    /\ UNCHANGED <<files, bak>>
    /\ UNCHANGED decisionVars
    /\ UNCHANGED inputVars

\* ------------------------------------------------------ cascading mutator

\* A splice that takes every variation sub-block of the file with it.
SpliceAllVariations(f, cols, hs, vs) ==
    [exists |-> TRUE, marker |-> f.marker, items |-> f.items \ cols, hiers |-> f.hiers \ hs,
     vars |-> {}]

\* The lines of a file without the blocks of the items cols (a column's
\* block holds its variation sub-block), the hierarchy blocks hs and the
\* variation sub-blocks of the columns vs.
Splice(f, cols, hs, vs) ==
    [exists |-> TRUE, marker |-> f.marker, items |-> f.items \ cols, hiers |-> f.hiers \ hs,
     vars |-> (f.vars \ cols) \ vs]

\* Locate: the candidates of table t whose declaration line is found, a
\* measure by the measure pattern and anything else by the column pattern.
Located(f, t) ==
    {k \in cand \cap ColsOf(t) :
        /\ k \in f.items
        /\ (BlockType(k) = "measure") = (shape.decl[k] = "measure")}

\* Cascade-discover taking every hierarchy block of the file.
CascadeHierarchiesWholeFile(f, loc) == f.hiers

\* Cascade-discover: the hierarchy blocks of the file with a level that
\* names a located column (removed_col_names holds no measure).
CascadeHierarchies(f, loc) ==
    {h \in f.hiers : \E c \in shape.levels[h] : c \in loc /\ BlockType(c) = "column"}

HierarchyItem(h) ==
    [table |-> h[1], name |-> h[2], item_type |-> "Hierarchy (cascade)",
     block_type |-> "hierarchy"]

VariationItem(k) ==
    [table |-> k[1], name |-> "Variation", item_type |-> "Variation (cascade)",
     block_type |-> "variation"]

TableItem(t) ==
    [table |-> t, name |-> "(entire table)", item_type |-> "Empty Table Deleted",
     block_type |-> "table"]

FileNotFoundItem(k) ==
    [table |-> k[1], name |-> k[2], item_type |-> ItemType(k),
     block_type |-> "column", reason |-> "TMDL file not found"]

ItemRows(s) == [i \in 1..Len(s) |-> Item(s[i])]
NotFoundRows(s) == [i \in 1..Len(s) |-> SkippedItem(s[i], "Not found in TMDL")]
\* The rows of a missing file recorded as if the file had been searched.
FileNotFoundRowsAsNotFound(s) == NotFoundRows(s)
FileNotFoundRows(s) == [i \in 1..Len(s) |-> FileNotFoundItem(s[i])]
HierarchyRows(s) == [i \in 1..Len(s) |-> HierarchyItem(s[i])]
VariationRows(s) == [i \in 1..Len(s) |-> VariationItem(s[i])]
TableRows(s) == [i \in 1..Len(s) |-> TableItem(s[i])]

\* The variation sub-blocks of a file whose defaultHierarchy is a deleted
\* hierarchy.
OrphanBlocks(f, dh) ==
    {k \in f.vars : \E e \in Edges("variation") : e.from = k /\ e.to \in dh}

\* truly_orphaned, cut to the tables whose file exists and holds the
\* showAsVariationsOnly line: the tables of the deleted hierarchies that no
\* defaultHierarchy line of any file names any more.
TrulyOrphaned(fs, dh) ==
    LET po == {h[1] : h \in dh}
        sr == {t \in po : \E e \in Edges("variation") :
                            e.from \in PresentVars(fs) /\ e.to[1] = t}
    IN  {t \in po \ sr : fs[t] # NoFile /\ fs[t].marker}

ToPrune == [pc |-> "prune", queue |-> << >>]

\* Second half of remove_orphaned_variations: the marker strip.
AfterOrphan(fs, dh) ==
    LET q == SortedSeq(TrulyOrphaned(fs, dh))
    IN  IF q # << >> THEN [pc |-> "strip", queue |-> q] ELSE ToPrune

\* After the loop over the table files: the cross-file cascade when a
\* hierarchy was deleted, over the sorted files that hold an orphan.
AfterMain(fs, dh) ==
    IF dh = {} THEN ToPrune
    ELSE LET q == SortedSeq({t \in Tables :
                               fs[t] # NoFile /\ OrphanBlocks(fs[t], dh) # {}})
         IN  IF q # << >> THEN [pc |-> "orphan", queue |-> q]
             ELSE AfterOrphan(fs, dh)

NextPhase(phase, q, fs, dh) ==
    IF q # << >> THEN [pc |-> phase, queue |-> q]
    ELSE IF phase = "main" THEN AfterMain(fs, dh)
    ELSE IF phase = "orphan" THEN AfterOrphan(fs, dh)
    ELSE ToPrune

\* remove_blocks_from_tmdl rewriting a file in which no block was located.
RewritesWhenNothingLocated(loc) == TRUE

\* remove_blocks_from_tmdl returns before the backup when no block was located.
Rewrites(loc) == loc # {}

\* One turn of the loop over the table files, up to the backup: a missing
\* file, or remove_blocks_from_tmdl's locate and cascade-discover.
RemoveBlocksFromTmdl ==
    /\ pc = "main"
    /\ queue # << >>
    /\ LET t    == Head(queue)
           rows == RowsIn(cand \cap ColsOf(t))
           loc  == IF files[t] = NoFile THEN {} ELSE Located(files[t], t)
           miss == NotFoundRows(RowsIn((cand \cap ColsOf(t)) \ loc))
           np   == NextPhase("main", Tail(queue), files, deletedHier)
       IN  IF files[t] = NoFile
           THEN /\ skipped' = skipped \o FileNotFoundRows(rows)
                /\ queue' = np.queue
                /\ pc' = np.pc
                /\ pending' = NoPending
           ELSE IF ~Rewrites(loc)
           THEN /\ skipped' = skipped \o miss
                /\ queue' = np.queue
                /\ pc' = np.pc
                /\ pending' = NoPending
           ELSE LET casc == CascadeHierarchies(files[t], loc)
                IN  /\ pending' =
                         [file |-> t,
                          content |-> Splice(files[t], loc, casc, {}),
                          rule |-> "always",
                          phase |-> "main",
                          removed |-> ItemRows(RowsIn(loc))
                                      \o HierarchyRows(SeqOfSet(casc)),
                          skipped |-> miss,
                          hier |-> casc]
                    /\ pc' = "backup"
                    /\ UNCHANGED <<skipped, queue>>
    /\ UNCHANGED <<files, bak, mode, toRemoveSet, prot, cand, removed, deletedHier, run, hist>>
    /\ UNCHANGED decisionVars
    /\ UNCHANGED inputVars

\* One turn of remove_orphaned_variations' loop over the sorted files, up
\* to the backup.
RemoveOrphanedVariations ==
    /\ pc = "orphan"
    /\ queue # << >>
    /\ LET t == Head(queue)
           blocks == OrphanBlocks(files[t], deletedHier)
       IN  pending' =
              [file |-> t,
               content |-> Splice(files[t], {}, {}, blocks),
               rule |-> "ifabsent",
               phase |-> "orphan",
               removed |-> VariationRows(RowsIn(blocks)),
               skipped |-> << >>,
               hier |-> {}]
    /\ pc' = "backup"
    /\ UNCHANGED <<files, bak, mode, toRemoveSet, prot, cand, removed, skipped,
                   deletedHier, queue, run, hist>>
    /\ UNCHANGED decisionVars
    /\ UNCHANGED inputVars

\* One turn of the loop over truly_orphaned, up to the backup.
StripShowAsVariationsOnly ==
    /\ pc = "strip"
    /\ queue # << >>
    /\ pending' =
          [file |-> Head(queue),
           content |-> [files[Head(queue)] EXCEPT !.marker = FALSE],
           rule |-> "ifabsent",
           phase |-> "strip",
           removed |-> << >>,
           skipped |-> << >>,
           hier |-> {}]
    /\ pc' = "backup"
    /\ UNCHANGED <<files, bak, mode, toRemoveSet, prot, cand, removed, skipped,
                   deletedHier, queue, run, hist>>
    /\ UNCHANGED decisionVars
    /\ UNCHANGED inputVars

\* remove_blocks_from_tmdl copies the file over any backup; the two later
\* passes copy it only when no backup file exists.
NeedsBackup(rule, b) == rule = "always" \/ b = NoFile

\* shutil.copy2(tmdl_path, backup_path)
BackupFile ==
    /\ pc = "backup"
    /\ LET t == pending.file
       IN  IF NeedsBackup(pending.rule, bak[t])
           THEN /\ bak' = [bak EXCEPT ![t] = files[t]]
                /\ hist' = [hist EXCEPT !.bakWrites[t] = @ + 1]
           ELSE UNCHANGED <<bak, hist>>
    /\ pc' = "write"
    /\ UNCHANGED <<files, mode, toRemoveSet, prot, cand, removed, skipped,
                   deletedHier, queue, pending, run>>
    /\ UNCHANGED decisionVars
    /\ UNCHANGED inputVars

\* tmdl_path.write_text(...), and what the caller does on return.
WriteFile ==
    /\ pc = "write"
    /\ LET t  == pending.file
           fs == [files EXCEPT ![t] = pending.content]
           dh == deletedHier \cup pending.hier
           np == NextPhase(pending.phase, Tail(queue), fs, dh)
       IN  /\ files' = fs
           /\ deletedHier' = dh
           /\ removed' = removed \o pending.removed
           /\ skipped' = skipped \o pending.skipped
           /\ hist' = [hist EXCEPT !.edited = @ \cup {t}]
           /\ queue' = np.queue
           /\ pc' = np.pc
    /\ pending' = NoPending
    /\ UNCHANGED <<bak, mode, toRemoveSet, prot, cand, run>>
    /\ UNCHANGED decisionVars
    /\ UNCHANGED inputVars

\* A file with no column declaration left, whatever measures it holds.
IsEmptyShellOfColumns(f) ==
    f # NoFile /\ \A k \in f.items : shape.decl[k] = "measure"

\* A file with no column and no measure declaration left.
IsEmptyShell(f) == f # NoFile /\ f.items = {}

\* The empty-table prune, then the return of run_tmdl_cleanup.
PruneEmptyTables ==
    /\ pc = "prune"
    /\ files' = [t \in Tables |-> IF IsEmptyShell(files[t]) THEN NoFile ELSE files[t]]
    /\ removed' = removed \o
          TableRows(SortedSeq({t \in Tables : IsEmptyShell(files[t])}))
    /\ pc' = "done"
    /\ UNCHANGED <<bak, mode, toRemoveSet, prot, cand, skipped, deletedHier,
                   queue, pending, run, hist>>
    /\ UNCHANGED decisionVars
    /\ UNCHANGED inputVars

\* ------------------------------------------------------------ full pipeline

SrcOf(k, w) ==
    IF k = <<"D", "WeeksOpen">> THEN w
    ELSE IF k = <<"L", "Month">> THEN Calculated ELSE Imported

Init ==
    \E pbi \in [Cols -> BOOLEAN], w \in {Calculated, Measure},
       pr \in ProtectionChoices, lv \in LevelChoices, E \in EdgeChoices :
        /\ ValidShape([k \in Cols |-> DeclOf(SrcOf(k, w))], lv, E)
        /\ catalog = [k \in Cols |-> [src |-> SrcOf(k, w), pbi |-> pbi[k], rel |-> FALSE]]
        /\ protection = pr
        /\ InitRest([k \in Cols |-> SrcOf(k, w)], lv, E)

Next ==
    \/ F5
    \/ F6
    \/ GenerateDropTableSql
    \/ GenerateDropColumnSql
    \/ \E m \in Modes : StartCleanup(m)
    \/ RemoveBlocksFromTmdl
    \/ RemoveOrphanedVariations
    \/ StripShowAsVariationsOnly
    \/ BackupFile
    \/ WriteFile
    \/ PruneEmptyTables

Spec == Init /\ [][Next]_vars

\* ------------------------------------------------- report field usage
\* How many rows the report metadata sheet holds.
MaxUsageRows == 2

\* _clean_text: newlines to spaces, strip, runs of whitespace to one space.
CleanText(x) == IF x = " Cost" THEN "Cost" ELSE x

\* The last step of normalize_key: one trailing question mark is removed.
StripQuestion(x) == IF x = "won?" THEN "won" ELSE x

\* normalize_key on Table$$Column: strip, collapse whitespace, lower-case,
\* then drop the question mark that ends the key.
NormalizeKey(k) == <<Lower(CleanText(k[1])), StripQuestion(Lower(CleanText(k[2])))>>

\* The Gold catalog the usage flags are computed for: a measure whose name
\* ends in a question mark, a column name two tables share, a measure that is
\* the display name of a visual field.
SemanticMaster ==
    { [table |-> "Opp", name |-> "Won?", src |-> Measure],
      [table |-> "Opp", name |-> "Amount", src |-> Imported],
      [table |-> "Own", name |-> "Amount", src |-> Imported],
      [table |-> "Opp", name |-> "Margin", src |-> Measure] }

\* "Column in the Semantic Model" after str.split(","): the pieces, as read.
ColumnFields == { <<"Amount">>, <<"Amount", " Cost">>, <<"">>, <<"Won?">> }

\* A row of the report metadata sheet; formula: Measure Formula is not empty.
UsageRows ==
    [ table : {"Opp", "Own"}, cols : ColumnFields, use : {"Visual", "Filter (Measure)"},
      formula : BOOLEAN, ui : {"Margin"} ]

UsageChoices == UNION { [1..n -> UsageRows] : n \in 1..MaxUsageRows }

\* Which usage words the Usage cell holds, and the (measure) tag.
UsageFlags(use) ==
    IF use = "Visual" THEN [Slicer |-> 0, Visual |-> 1, Filter |-> 0, tag |-> FALSE]
    ELSE [Slicer |-> 0, Visual |-> 0, Filter |-> 1, tag |-> TRUE]

\* df.explode followed by the filter on the empty name: one row per
\* non-blank piece of the column field.
Exploded(u) ==
    UNION { { [row |-> i, piece |-> j, dup |-> FALSE,
               table |-> CleanText(u[i].table), name |-> CleanText(u[i].cols[j])] :
                j \in {x \in DOMAIN u[i].cols : CleanText(u[i].cols[x]) # ""} } :
            i \in DOMAIN u }

\* measure_rows: the exploded rows that carry a formula, copied under the
\* UI Field Name.
MeasureRows(u) ==
    { [o EXCEPT !.dup = TRUE, !.name = CleanText(u[o.row].ui)] :
        o \in {x \in Exploded(u) : u[x.row].formula /\ CleanText(u[x.row].ui) # ""} }

Observations(u) == Exploded(u) \cup MeasureRows(u)

RECURSIVE SumOver(_, _, _)
SumOver(S, u, field) ==
    IF S = {} THEN 0
    ELSE LET o == CHOOSE x \in S : TRUE
             f == UsageFlags(u[o.row].use)
             v == IF field = "Slicer" THEN f.Slicer
                  ELSE IF field = "Visual" THEN f.Visual
                  ELSE IF field = "Filter" THEN f.Filter
                  ELSE IF f.tag \/ u[o.row].formula THEN 1 ELSE 0
         IN v + SumOver(S \ {o}, u, field)

\* groupby(Table, Column).sum() over the observations.
Aggregate(obs, u) ==
    { [table |-> g[1], name |-> g[2],
       Slicer |-> SumOver({o \in obs : <<o.table, o.name>> = g}, u, "Slicer"),
       Visual |-> SumOver({o \in obs : <<o.table, o.name>> = g}, u, "Visual"),
       Filter |-> SumOver({o \in obs : <<o.table, o.name>> = g}, u, "Filter"),
       Measure |-> SumOver({o \in obs : <<o.table, o.name>> = g}, u, "Measure")] :
        g \in {<<o.table, o.name>> : o \in obs} }

function1_report_field_usage ==
    /\ pc = "f1"
    /\ f1out' = Aggregate(Observations(usage), usage)
    /\ pc' = "f3"
    /\ UNCHANGED <<catalog, protection, shape, usage, f3out, relations, f2out, error>>
    /\ UNCHANGED decisionVars
    /\ UNCHANGED cleanupVars

\* used_keys_norm and f1_col_names_norm
UsedKeysNorm(out) == {NormalizeKey(<<r.table, r.name>>) : r \in out}
F1ColNamesNorm(out) == {k[2] : k \in UsedKeysNorm(out)}

UsedInPBI(m, out) ==
    \/ NormalizeKey(<<m.table, m.name>>) \in UsedKeysNorm(out)
    \/ /\ m.src = Measure
       /\ Lower(m.name) \in F1ColNamesNorm(out)

function3_flag_columns_used_in_pbi ==
    /\ pc = "f3"
    /\ f3out' = { [table |-> m.table, name |-> m.name, src |-> m.src,
                   used |-> UsedInPBI(m, f1out)] : m \in SemanticMaster }
    /\ pc' = "flagged"
    /\ UNCHANGED <<catalog, protection, shape, usage, f1out, relations, f2out, error>>
    /\ UNCHANGED decisionVars
    /\ UNCHANGED cleanupVars

FixedCatalog == [k \in Cols |-> [src |-> Imported, pbi |-> FALSE, rel |-> FALSE]]

InitUsage ==
    \E u \in UsageChoices :
        /\ catalog = FixedCatalog
        /\ protection = [tables |-> {}, columns |-> {}]
        /\ InitState([k \in Cols |-> Imported], [h \in Hiers |-> {}], {})
        /\ pc = "f1"
        /\ usage = u
        /\ f1out = {}
        /\ f3out = {}
        /\ relations = << >>
        /\ f2out = NoOutput
        /\ error = NoError

NextUsage ==
    \/ function1_report_field_usage
    \/ function3_flag_columns_used_in_pbi

SpecUsage == InitUsage /\ [][NextUsage]_vars

\* ------------------------------------------------ relationship columns
\* How many rows the Relations sheet holds.
MaxRelations == 2

\* The Tables and Columns sheets: ID to name.
TableNameById == (1 :> "D") @@ (2 :> "L")
ColumnNameById == (1 :> "Date") @@ (2 :> "WeeksOpen") @@ (3 :> "Year") @@ (4 :> "Month")

\* What Series.map leaves for an ID the dictionary does not hold.
NaN == "NaN"

\* Rows of the Relations sheet: two between columns of the catalog, one with
\* an unknown table ID, one with an unknown column ID, one whose column ID
\* belongs to another table than its table ID.
RelationUniverse ==
    { [fromT |-> 1, fromC |-> 1, toT |-> 2, toC |-> 3],
      [fromT |-> 2, fromC |-> 4, toT |-> 1, toC |-> 2],
      [fromT |-> 9, fromC |-> 1, toT |-> 2, toC |-> 3],
      [fromT |-> 1, fromC |-> 1, toT |-> 2, toC |-> 9],
      [fromT |-> 1, fromC |-> 3, toT |-> 2, toC |-> 3] }

RelationChoices == UNION { [1..n -> RelationUniverse] : n \in 0..MaxRelations }

MapId(dict, id) == IF id \in DOMAIN dict THEN dict[id] ELSE NaN

\* output_df: the four ID columns mapped to names, row by row.
ResolvedRows(rels) ==
    [ i \in DOMAIN rels |->
        [ FromTableName  |-> MapId(TableNameById, rels[i].fromT),
          FromColumnName |-> MapId(ColumnNameById, rels[i].fromC),
          ToTableName    |-> MapId(TableNameById, rels[i].toT),
          ToColumnName   |-> MapId(ColumnNameById, rels[i].toC) ] ]

\* output_df.isna().any(axis=1).any(), with only the From columns looked at.
AnyUnresolvedFromEndpoint(out) ==
    \E i \in DOMAIN out : NaN \in {out[i].FromTableName, out[i].FromColumnName}

\* output_df.isna().any(axis=1).any()
AnyUnresolved(out) ==
    \E i \in DOMAIN out :
        NaN \in {out[i].FromTableName, out[i].FromColumnName,
                 out[i].ToTableName, out[i].ToColumnName}

\* The ValueError of function 2: its message is one fixed sentence, it names
\* no row of the sheet.
ResolutionError == [raised |-> TRUE, rows |-> {}]

function2_relationship_columns_resolver ==
    /\ pc = "f2"
    /\ IF AnyUnresolved(ResolvedRows(relations))
       THEN /\ error' = ResolutionError
            /\ pc' = "halt"
            /\ UNCHANGED f2out
       ELSE /\ f2out' = [written |-> TRUE, rows |-> ResolvedRows(relations)]
            /\ pc' = "f4"
            /\ UNCHANGED error
    /\ UNCHANGED <<catalog, protection, shape, usage, f1out, f3out, relations>>
    /\ UNCHANGED decisionVars
    /\ UNCHANGED cleanupVars

\* rel_key_set, with the To endpoints left out.
RelKeySetFromEndpoints(rows) ==
    {NormalizeKey(<<rows[i].FromTableName, rows[i].FromColumnName>>) : i \in DOMAIN rows}

\* rel_key_set: the normalized keys of the From and To endpoints.
RelKeySet(rows) ==
    {NormalizeKey(<<rows[i].FromTableName, rows[i].FromColumnName>>) : i \in DOMAIN rows}
    \cup {NormalizeKey(<<rows[i].ToTableName, rows[i].ToColumnName>>) : i \in DOMAIN rows}

function4_flag_columns_used_in_relationships ==
    /\ pc = "f4"
    /\ catalog' = [k \in Cols |->
                     [catalog[k] EXCEPT !.rel = NormalizeKey(k) \in RelKeySet(f2out.rows)]]
    /\ pc' = "f5"
    /\ UNCHANGED <<protection, shape, usage, f1out, f3out, relations, f2out, error>>
    /\ UNCHANGED decisionVars
    /\ UNCHANGED cleanupVars

InitRelationship ==
    \E rels \in RelationChoices, pbi \in [Cols -> BOOLEAN] :
        /\ catalog = [k \in Cols |-> [src |-> Imported, pbi |-> pbi[k], rel |-> FALSE]]
        /\ protection = [tables |-> {}, columns |-> {}]
        /\ InitState([k \in Cols |-> Imported], [h \in Hiers |-> {}], {})
        /\ pc = "f2"
        /\ usage = << >>
        /\ f1out = {}
        /\ f3out = {}
        /\ relations = rels
        /\ f2out = NoOutput
        /\ error = NoError

NextRelationship ==
    \/ function2_relationship_columns_resolver
    \/ function4_flag_columns_used_in_relationships
    \/ F5

SpecRelationship == InitRelationship /\ [][NextRelationship]_vars

\* ------------------------------------------------------------- properties

CleanupStarted == run >= 1

\* Remove_column = Used_in_PBI = 0 and Used_in_Relationship = 0.
Unused(k) == ~catalog[k].pbi /\ ~catalog[k].rel

\* C1: once function 5 has run, every column has protected = (table in
\* protected_tables or key in protected_columns), and remove = (not used in
\* the report and not used in a relationship) unless it is protected, in
\* which case remove is false whatever the two liveness flags say.
C1_Function5Verdict ==
    pc # "f5" =>
        \A k \in Cols :
            /\ f5[k].protected =
                  (Lower(k[1]) \in protection.tables \/ NormKey(k) \in protection.columns)
            /\ ~f5[k].protected => (f5[k].remove = Unused(k))
            /\ f5[k].protected => ~f5[k].remove

\* A protected column that liveness alone would flag, next to an
\* unprotected one that is flagged.
C1_Witness ==
    /\ pc # "f5"
    /\ \E k \in Cols : f5[k].protected /\ Unused(k) /\ ~f5[k].remove
    /\ \E k \in Cols : ~f5[k].protected /\ f5[k].remove

\* The key of a candidate is in one of the four structural protection sets.
StructurallyProtected(k) ==
    k \in prot.hier \/ k \in prot.link \/ k \in prot.dax \/ k \in prot.sib

\* C2: when the loop over the table files starts, every candidate left has
\* Remove_column = yes and is in none of the five protection sets: hierarchy
\* support, semantic-link target, formula reference, hierarchy sibling, and
\* the manual / access-control protection of function 5.
C2_CandidatesUnprotected ==
    pc = "main" =>
        \A k \in cand :
            /\ f5[k].remove
            /\ ~StructurallyProtected(k)
            /\ ~Function5Protected(k)

\* Mutation starts with a candidate left while a sibling-protected and a
\* manually protected column were taken out.
C2_Witness ==
    /\ pc = "main"
    /\ cand # {}
    /\ prot.sib \cap toRemoveSet # {}
    /\ \E k \in Cols : Function5Protected(k)

\* C3: no DROP COLUMN statement of the run's DROP_COLUMNS.sql names a column
\* that the structural analyses put in a protection set.
C3_NoDropForStructurallyProtected ==
    CleanupStarted =>
        \A k \in Cols : StructurallyProtected(k) => DropColumnStatement(k) \notin dropCols

DeletedInRun(k) == k \in PresentItems(hist.start) /\ k \notin PresentItems(files)

DeletedHierInRun(h) == h \in PresentHiers(hist.start) /\ h \notin PresentHiers(files)

\* A block that is still in a file and names a block deleted in the run.
Dangling ==
    \/ \E h \in PresentHiers(files) : \E c \in shape.levels[h] : DeletedInRun(c)
    \/ \E e \in Edges("variation") : e.from \in PresentVars(files) /\ DeletedHierInRun(e.to)
    \/ \E e \in shape.edges :
          /\ e.type \in {"sortBy", "link", "dax"}
          /\ e.from \in PresentItems(files)
          /\ ~(e.type = "dax" /\ f5[e.from].remove)
          /\ \E k \in Cols : NormKey(k) = NormKey(e.to) /\ DeletedInRun(k)

\* C4: when a run of the mutator has returned, no block left in a file
\* names a block deleted in that run: no hierarchy level names a deleted
\* column, no variation a deleted hierarchy, no kept formula, sortByColumn
\* or semantic-link annotation a deleted column.
C4_NoDanglingReference ==
    (pc = "done" /\ CleanupStarted) => ~Dangling

\* C5: once function 6 has run, a table has Remove_table = yes exactly when
\* every one of its columns has Remove_column = yes and the table is not a
\* protected security table; kept_tables is the set of the other tables.
C5_Function6Verdict ==
    pc \notin {"f5", "f6"} =>
        /\ \A t \in Tables :
              f6[t] = (/\ \A k \in ColsOf(t) : f5[k].remove
                       /\ Lower(t) \notin protection.tables)
        /\ \A t \in Tables : f6[t] =>
              /\ \A k \in ColsOf(t) : f5[k].remove
              /\ Lower(t) \notin protection.tables
        /\ keptTables = {t \in Tables : ~f6[t]}

\* One table flagged, another kept although one of its columns is flagged.
C5_Witness ==
    /\ pc \notin {"f5", "f6"}
    /\ \E t \in Tables : f6[t]
    /\ \E t \in Tables : ~f6[t] /\ \E k \in ColsOf(t) : f5[k].remove

\* C6: DROP_COLUMNS.sql holds a statement for exactly the columns with
\* Remove_column = yes, in a kept table, whose SourceColumn marks a real
\* imported column; none for a measure, a calculated column, a synthetic
\* value column or a column of a table that is dropped.
C6_DropColumnExactlyImported ==
    pc = "cleanup" =>
        {<<s.table, s.column>> : s \in dropCols} =
            {k \in Cols : f5[k].remove /\ k[1] \in keptTables /\ catalog[k].src = Imported}

\* The column and measure records of all_removed.
RemovedItems ==
    {i \in Range(removed) : i.block_type \in {"column", "measure"}}

\* C7 as stated: a column or measure block is deleted only from the file of
\* a table whose Remove_table verdict is no.
C7_DeletionGatedByKeptTables ==
    \A i \in RemovedItems : i.table \in keptTables

\* C7, amended: a column or measure block is deleted only when its own
\* Function 5 verdict is Remove_column = yes, the mode selects it and no
\* structural protection holds; the table's verdict plays no part.
C7_DeletionGatedByColumnVerdict ==
    \A i \in RemovedItems :
        LET k == <<i.table, i.name>>
        IN  /\ f5[k].remove
            /\ k \in Selected(mode)
            /\ ~StructurallyProtected(k)

\* A block deleted from the file of a table whose verdict is remove.
C7_Witness ==
    /\ pc = "done"
    /\ \E i \in RemovedItems : f6[i.table] /\ f5[<<i.table, i.name>>].remove

\* C8: every file edited in the run has had exactly one backup written in
\* the run, and the backup holds the content the file had before its first
\* edit of the run.
C8_OneBackupBeforeFirstEdit ==
    \A t \in hist.edited :
        /\ hist.bakWrites[t] = 1
        /\ bak[t] = hist.start[t]

\* The tables some variation sub-block of the files fs points to.
ReferencedTables(fs) ==
    {e.to[1] : e \in {x \in Edges("variation") : x.from \in PresentVars(fs)}}

\* C9: when a run in which a hierarchy block was deleted has returned, no
\* variation left in any file points to a hierarchy deleted in the run, and
\* every table whose showAsVariationsOnly marker is no longer referenced by
\* a remaining variation has lost the marker.
C9_CascadeComplete ==
    (pc = "done" /\ CleanupStarted /\ \E h \in Hiers : DeletedHierInRun(h)) =>
        /\ \A e \in Edges("variation") :
              DeletedHierInRun(e.to) => e.from \notin PresentVars(files)
        /\ \A t \in ReferencedTables(hist.start) \ ReferencedTables(files) :
              files[t] # NoFile => ~files[t].marker

\* C10: a second run of run_tmdl_cleanup with the same decision output and
\* mode, on the files the first run left, removes nothing and changes no
\* file and no backup.
C10_SecondRunChangesNothing ==
    (run >= 2 /\ mode = hist.prevMode) =>
        /\ removed = << >>
        /\ files = hist.start
        /\ bak = hist.bakStart
        /\ hist.edited = {}
        /\ \A t \in Tables : hist.bakWrites[t] = 0

\* A second run has returned after a first run that deleted blocks, with
\* candidates it could not find any more.
C10_Witness ==
    /\ run >= 2
    /\ mode = hist.prevMode
    /\ pc = "done"
    /\ cand # {}
    /\ \E t \in Tables : bak[t] # NoFile
    /\ \E i \in Range(skipped) : i.reason \in {"Not found in TMDL", "TMDL file not found"}

\* Nothing has been backed up, rewritten or deleted in the run so far.
Untouched ==
    /\ hist.edited = {}
    /\ \A t \in Tables : hist.bakWrites[t] = 0
    /\ pc # "done"

\* C11: in every run the four structural analyses are computed on the files
\* as the run found them, over the whole candidate set, and their union is
\* taken out of the candidates before the first backup, rewrite or deletion
\* of a file; until then no file and no backup has changed.
C11_ProtectionBeforeMutation ==
    (CleanupStarted /\ toRemoveSet # {}) =>
        /\ prot = [hier |-> FindProtectedHierarchyColumns(hist.start, toRemoveSet),
                   link |-> FindProtectedSemanticLinkColumns(hist.start, toRemoveSet),
                   dax  |-> FindProtectedDaxReferenceColumns(hist.start, toRemoveSet),
                   sib  |-> FindProtectedHierarchyLevelSiblings(hist.start, toRemoveSet)]
        /\ cand = {k \in toRemoveSet : ~StructurallyProtected(k)}
        /\ Untouched => (files = hist.start /\ bak = hist.bakStart)

\* The first backup of a run is about to be written, after a link-protected
\* or sibling-protected candidate was taken out.
C11_Witness ==
    /\ pc = "backup"
    /\ Untouched
    /\ (prot.link \cup prot.sib) \cap toRemoveSet # {}
    /\ cand # {}

\* C12: every candidate level column of a hierarchy with a level column
\* that is no candidate is in the sibling protection set, and when the run
\* has returned a hierarchy with a sibling-protected level holds all of its
\* level columns or none of them.
C12_SiblingHierarchyWhole ==
    (CleanupStarted /\ toRemoveSet # {}) =>
        \A h \in PresentHiers(hist.start) :
            /\ (\E c \in shape.levels[h] : c \notin toRemoveSet) =>
                  (shape.levels[h] \cap toRemoveSet) \subseteq prot.sib
            /\ (pc = "done" /\ shape.levels[h] \cap prot.sib # {}) =>
                  LET left == shape.levels[h] \cap PresentItems(files)
                  IN  left = {} \/ left = shape.levels[h]

\* A run that deleted blocks has returned, and a hierarchy with a
\* sibling-protected level still has all its level columns.
C12_Witness ==
    /\ pc = "done"
    /\ removed # << >>
    /\ \E h \in PresentHiers(files) :
          /\ shape.levels[h] \cap prot.sib # {}
          /\ shape.levels[h] \subseteq PresentItems(files)

\* The observed keys and names of the Usage Aggregator, normalized.
ObservedKeys == {NormalizeKey(<<r.table, r.name>>) : r \in f1out}
ObservedNames == {StripQuestion(Lower(CleanText(r.name))) : r \in f1out}

\* C13: once function 3 has run, a catalog row is flagged used in reports
\* exactly when its normalized Table$$Column key is among the observed keys,
\* or it is a measure whose bare name is among the observed column names;
\* hence a plain column is flagged only through its full key.
C13_UsedInReportIff ==
    pc = "flagged" =>
        \A r \in f3out :
            r.used <=>
                \/ NormalizeKey(<<r.table, r.name>>) \in ObservedKeys
                \/ /\ r.src = Measure
                   /\ StripQuestion(Lower(CleanText(r.name))) \in ObservedNames

\* One observation per non-blank name of a row, and one more, under the
\* display name, for each row that carries a formula.
DisplayNameObservations(u) ==
    { [row |-> i, piece |-> 0, dup |-> TRUE,
       table |-> CleanText(u[i].table), name |-> CleanText(u[i].ui)] :
        i \in {x \in DOMAIN u : u[x].formula} }

\* C15: the output of function 1 holds, per table and name, the sums over one
\* observation per non-blank name of every usage row plus one observation
\* under the display name for every row with a formula.
C15_OneDisplayNameObservationPerRow ==
    pc # "f1" =>
        f1out = Aggregate(Exploded(usage) \cup DisplayNameObservations(usage), usage)
\* The catalog column a pair of IDs of the Relations sheet stands for.
EndpointsOf(r) ==
    { k \in Cols :
        \/ r.fromT \in DOMAIN TableNameById /\ r.fromC \in DOMAIN ColumnNameById
           /\ k = <<TableNameById[r.fromT], ColumnNameById[r.fromC]>>
        \/ r.toT \in DOMAIN TableNameById /\ r.toC \in DOMAIN ColumnNameById
           /\ k = <<TableNameById[r.toT], ColumnNameById[r.toC]>> }

\* C14: once function 4 has run, a column is flagged used in a relationship
\* exactly when its normalized key is the normalized From or To endpoint of
\* some resolved relationship; and once function 5 has run, both endpoint
\* columns of every relationship have remove = false, used in a report or not.
C14_RelationshipEndpointsKept ==
    /\ pc \in {"f5", "f6"} =>
          \A k \in Cols :
              catalog[k].rel <=>
                  \E i \in DOMAIN f2out.rows :
                      \/ NormalizeKey(k) = NormalizeKey(<<f2out.rows[i].FromTableName,
                                                          f2out.rows[i].FromColumnName>>)
                      \/ NormalizeKey(k) = NormalizeKey(<<f2out.rows[i].ToTableName,
                                                          f2out.rows[i].ToColumnName>>)
    /\ pc = "f6" =>
          \A i \in DOMAIN relations : \A k \in EndpointsOf(relations[i]) :
              ~f5[k].remove

C14_Witness ==
    /\ pc = "f6"
    /\ \E i \in DOMAIN relations :
          /\ Cardinality(EndpointsOf(relations[i])) = 2
          /\ \A k \in EndpointsOf(relations[i]) : ~catalog[k].pbi /\ ~f5[k].remove
    /\ \E k \in Cols : f5[k].remove

\* The rows of the Relations sheet with an ID that has no mapping.
UnresolvedRows ==
    { i \in DOMAIN relations :
        \/ relations[i].fromT \notin DOMAIN TableNameById
        \/ relations[i].toT \notin DOMAIN TableNameById
        \/ relations[i].fromC \notin DOMAIN ColumnNameById
        \/ relations[i].toC \notin DOMAIN ColumnNameById }

NoDecisionYet ==
    /\ f5 = [k \in Cols |-> [remove |-> FALSE, protected |-> FALSE]]
    /\ \A k \in Cols : ~catalog[k].rel
    /\ dropTables = {} /\ dropCols = {}
    /\ ~CleanupStarted

Successors(S, fs) ==
    {e.to : e \in {x \in shape.edges :
                      /\ x.type = "variation"
                      /\ x.from \in S \cap PresentVars(fs)
                      /\ x.to \in PresentHiers(fs)}}
    \cup UNION {shape.levels[h] : h \in S \cap PresentHiers(fs)}
    \cup {e.to : e \in {x \in shape.edges :
                           x.type \in {"sortBy", "link"} /\ x.from \in S}}
    \cup {k \in Cols : \E e \in Edges("dax") : e.from \in S /\ NormKey(e.to) = NormKey(k)}
    \cup {h \in PresentHiers(fs) : shape.levels[h] \cap S # {}}

RECURSIVE Reachable(_, _)
Reachable(S, fs) ==
    LET next == S \cup Successors(S, fs)
    IN  IF next = S THEN S ELSE Reachable(next, fs)

\* The kept nodes of a run: the column and measure blocks that are no candidates.
KeptNodes == PresentItems(hist.start) \ toRemoveSet

\* C18: the union of the four protection sets holds exactly the candidates
\* that are reachable from a kept node along dependency edges.
C18_ProtectedIsReachable ==
    (CleanupStarted /\ toRemoveSet # {}) =>
        ProtectedCols(prot) \cap toRemoveSet
            = Reachable(KeptNodes, hist.start) \cap toRemoveSet
\* The variations of kept columns that point to a hierarchy of the files.
KeptVariations ==
    {e \in Edges("variation") :
        /\ e.from \in PresentVars(files)
        /\ e.from \notin toRemoveSet
        /\ e.to \in PresentHiers(files)}

\* C19: the set the hierarchy analysis returns holds every level column of
\* every hierarchy a kept column's variation points to, holds every candidate
\* that such a level column declares as its sort target, and leaves no
\* candidate unprotected that a column of the set declares as its sort target.
C19_NoUnprotectedSortTarget ==
    pc = "hierarchy_done" =>
        /\ \A e \in KeptVariations : shape.levels[e.to] \subseteq prot.hier
        /\ \A e \in KeptVariations : \A s \in Edges("sortBy") :
              (s.from \in shape.levels[e.to] /\ s.to \in toRemoveSet) => s.to \in prot.hier
        /\ \A s \in Edges("sortBy") :
              (s.from \in prot.hier /\ s.to \in toRemoveSet) => s.to \in prot.hier
\* The references in the formulas of the calculated columns and measures
\* that Function 5 keeps.
KeptFormulaReferences ==
    {e \in Edges("dax") :
        /\ e.from \in PresentItems(hist.start)
        /\ catalog[e.from].src \in {Calculated, Measure}
        /\ ~f5[e.from].remove}

KeptLinks ==
    {e \in Edges("link") :
        e.from \in PresentColumns(hist.start) /\ e.from \notin toRemoveSet}

\* C21: every candidate that the annotation of a kept column names as its
\* link target is in the semantic-link protection set, and the set holds
\* nothing else: an annotation on a candidate protects nothing.
C21_SemanticLinkTargetsProtected ==
    (CleanupStarted /\ toRemoveSet # {}) =>
        /\ \A e \in KeptLinks : e.to \in toRemoveSet => e.to \in prot.link
        /\ \A k \in prot.link : \E e \in KeptLinks : e.to = k

C21_Witness ==
    /\ pc = "done"
    /\ removed # << >>
    /\ \E e \in KeptLinks : e.to \in PresentItems(files) \cap toRemoveSet \cap prot.link
\* The skipped record r is about the item k and gives as its reason an
\* analysis whose set holds k.
NamesItsProtection(r, k) ==
    /\ r.table = k[1] /\ r.name = k[2]
    /\ \/ r.reason = "DAX reference" /\ k \in prot.dax
       \/ r.reason = "SemanticLink target" /\ k \in prot.link
       \/ r.reason = "Hierarchy level sibling" /\ k \in prot.sib
       \/ r.reason = "Supports Date Hierarchy" /\ k \in prot.hier

\* C22: in every run, every candidate of the union of the four protection
\* sets is out of the candidates of the mutation and, when the run returns,
\* has a skipped record whose reason names an analysis that protected it.
C22_ProtectedAreSkippedWithReason ==
    (CleanupStarted /\ pc = "done") =>
        \A k \in toRemoveSet \cap ProtectedCols(prot) :
            /\ k \notin cand
            /\ \E i \in DOMAIN skipped : NamesItsProtection(skipped[i], k)
\* remove_blocks_from_tmdl has discovered the blocks of a file and is about
\* to back it up or to write it.
CommitPending == pc \in {"backup", "write"} /\ pending.phase = "main"

\* The column and measure blocks the pending rewrite takes out of its file.
PendingLocated == files[pending.file].items \ pending.content.items

\* C23: when remove_blocks_from_tmdl has discovered the blocks of a file, the
\* hierarchy blocks in its deletion set are exactly the hierarchies of the
\* file with a level that names a located column (not a measure, not a
\* candidate that was not found), and each has its removed record.
C23_CascadeDiscover ==
    CommitPending =>
        LET f == files[pending.file]
            cols == {c \in PendingLocated : BlockType(c) = "column"}
        IN  /\ PendingLocated \subseteq cand
            /\ \A h \in f.hiers : h \in pending.hier <=> shape.levels[h] \cap cols # {}
            /\ pending.content.hiers = f.hiers \ pending.hier
            /\ \A h \in pending.hier :
                  \E i \in DOMAIN pending.removed : pending.removed[i] = HierarchyItem(h)

C23_Witness ==
    /\ CommitPending
    /\ pc = "write"
    /\ pending.hier # {}
    /\ pending.skipped # << >>
\* What a rewrite of the file t took out of it is inside the discovered
\* ranges: blocks of candidates, hierarchy blocks with a level naming a block
\* taken out with them, variation sub-blocks of such blocks or pointing to a
\* deleted hierarchy; the file is still there and no other file changed.
OnlyDiscoveredRangesRemoved(t, old, new, others, dh) ==
    /\ others
    /\ new.exists
    /\ new.items \subseteq old.items
    /\ (old.items \ new.items) \subseteq cand
    /\ new.hiers \subseteq old.hiers
    /\ \A h \in old.hiers \ new.hiers :
          \E c \in shape.levels[h] : c \in old.items \ new.items
    /\ new.vars \subseteq old.vars
    /\ \A k \in old.vars \ new.vars :
          \/ k \in old.items \ new.items
          \/ \E e \in Edges("variation") : e.from = k /\ e.to \in dh

\* C24 as stated: a rewrite leaves in the file exactly what it held minus the
\* located and cascaded block ranges; no table-level line is altered.
C24_RewriteRemovesOnlyBlockRanges ==
    [][ pc = "write" =>
          /\ OnlyDiscoveredRangesRemoved(pending.file, files[pending.file],
                 files'[pending.file],
                 \A u \in Tables \ {pending.file} : files'[u] = files[u], deletedHier')
          /\ files'[pending.file].marker = files[pending.file].marker ]_vars

\* C24, amended: a rewrite leaves in the file exactly what it held minus the
\* located and cascaded block ranges, except that the rewrite of the marker
\* strip takes out the showAsVariationsOnly line, and nothing else.
C24_RewriteRemovesRangesOrMarker ==
    [][ pc = "write" =>
          /\ OnlyDiscoveredRangesRemoved(pending.file, files[pending.file],
                 files'[pending.file],
                 \A u \in Tables \ {pending.file} : files'[u] = files[u], deletedHier')
          /\ files'[pending.file].marker # files[pending.file].marker =>
                /\ pending.phase = "strip"
                /\ files'[pending.file] = [files[pending.file] EXCEPT !.marker = FALSE] ]_vars

C24_Witness ==
    /\ pc = "done"
    /\ \E t \in hist.edited :
          /\ files[t] # NoFile
          /\ hist.start[t].marker /\ ~files[t].marker
    /\ \E t \in hist.edited :
          /\ files[t] # NoFile
          /\ files[t].vars # hist.start[t].vars

\* ------------------------------------------------------------ lookup misses

\* The file of a candidate's table as the loop over the table files finds
\* it: the loop visits each table once and nothing before it touches a file.
FileAtLookup(k) == hist.start[k[1]]

\* C25: a lookup miss is never fatal. At the end of a run that reached the
\* loop over the table files, a candidate whose table file is missing is in
\* the skipped list with the reason "TMDL file not found", a candidate whose
\* block is not in its file is there with the reason "Not found in TMDL",
\* neither is reported removed, and every other candidate, of the same
\* table or of another, has been removed and reported removed.
C25_LookupMissesAreSkipped ==
    (CleanupStarted /\ pc = "done" /\ cand # {}) =>
        \A k \in cand :
            IF FileAtLookup(k) = NoFile
            THEN /\ FileNotFoundItem(k) \in Range(skipped)
                 /\ Item(k) \notin Range(removed)
            ELSE IF k \notin FileAtLookup(k).items
            THEN /\ SkippedItem(k, "Not found in TMDL") \in Range(skipped)
                 /\ Item(k) \notin Range(removed)
            ELSE /\ Item(k) \in Range(removed)
                 /\ k \notin PresentItems(files)

\* A run ended in which the file of the first table of the loop was missing
\* and the loop went on to the second table, where a candidate's block was
\* not in the file: both are in the skipped list, each with its reason.
C25_Witness ==
    /\ pc = "done"
    /\ \E k \in cand \cap ColsOf("D") :
          FileAtLookup(k) = NoFile /\ FileNotFoundItem(k) \in Range(skipped)
    /\ \E k \in cand \cap ColsOf("L") :
          /\ FileAtLookup(k) # NoFile
          /\ k \notin FileAtLookup(k).items
          /\ SkippedItem(k, "Not found in TMDL") \in Range(skipped)

\* ------------------------------------------------------- file-system errors

\* shutil.copy2 raises: no handler in remove_blocks_from_tmdl,
\* remove_orphaned_variations or run_tmdl_cleanup catches it, so the
\* exception leaves run_tmdl_cleanup before the file is written, before the
\* rest of the queue is visited and before anything is returned.
BackupFails ==
    /\ pc = "backup"
    /\ NeedsBackup(pending.rule, bak[pending.file])
    /\ pc' = "failed"
    /\ UNCHANGED cleanupVars
    /\ UNCHANGED decisionVars
    /\ UNCHANGED inputVars

\* tmdl_path.write_text raises: the same, after the backup was made.
WriteFails ==
    /\ pc = "write"
    /\ pc' = "failed"
    /\ UNCHANGED cleanupVars
    /\ UNCHANGED decisionVars
    /\ UNCHANGED inputVars

NextIO ==
    \/ F5
    \/ F6
    \/ GenerateDropTableSql
    \/ GenerateDropColumnSql
    \/ \E m \in Modes : StartCleanup(m)
    \/ RemoveBlocksFromTmdl
    \/ RemoveOrphanedVariations
    \/ StripShowAsVariationsOnly
    \/ BackupFile
    \/ BackupFails
    \/ WriteFile
    \/ WriteFails
    \/ PruneEmptyTables

\* The pipeline on a file system whose copy and write can fail.
SpecIO == Init /\ [][NextIO]_vars

\* C26: a file-system error during the backup or the write of one file
\* aborts only that file's mutation: the step that follows the backup or the
\* write of a file never ends the run, which goes on to the write, to the
\* next file or to the next pass and so to its end-of-run disposition.
C26_FileErrorAbortsOnlyThatFile ==
    [][ (pc = "backup" \/ pc = "write") => pc' # "failed" ]_vars

\* ------------------------------------------- malformed link annotations
\* The semantic-link analysis on its own, over files whose
\* __PBI_SemanticLinks annotations may be malformed. An annotation is
\*   "link"         a JSON list of link objects, here with one LinkTarget;
\*   "link_invalid" text that json.loads rejects (JSONDecodeError);
\*   "link_scalar"  valid JSON that holds no link object (null, a number, a
\*                  string): json.loads returns and link.get raises
\*                  AttributeError, which nothing catches.
NoTarget == <<"", "">>

AnnotationUniverse ==
    { [type |-> "link", from |-> <<"L", "Month">>, to |-> <<"D", "Date">>],
      [type |-> "link", from |-> <<"L", "Year">>, to |-> <<"D", "WeeksOpen">>],
      [type |-> "link_invalid", from |-> <<"D", "Date">>, to |-> NoTarget],
      [type |-> "link_invalid", from |-> <<"L", "Month">>, to |-> NoTarget],
      [type |-> "link_scalar", from |-> <<"L", "Year">>, to |-> NoTarget] }

InitSemanticLink ==
    \E E \in SUBSET AnnotationUniverse :
        /\ catalog = [k \in Cols |-> [src |-> Imported, pbi |-> FALSE, rel |-> FALSE]]
        /\ protection = [tables |-> {}, columns |-> {}]
        /\ InitState([k \in Cols |-> Imported], [h \in Hiers |-> {}], E)
        /\ pc = "semantic_link"
        /\ NoLiveness

\* The annotations under a kept column of some file: the lines the loop
\* hands to json.loads.
KeptAnnotations(fs, trs, type) ==
    {e \in Edges(type) : e.from \in PresentColumns(fs) /\ e.from \notin trs}

\* link.get on something that is no dict.
SemanticLinkRaises(fs, trs) == KeptAnnotations(fs, trs, "link_scalar") # {}

\* _find_protected_semantic_link_columns applied to a set of candidates: it
\* raises, or it returns the targets of the annotations that parse.
ApplyFindProtectedSemanticLinkColumns ==
    /\ pc = "semantic_link"
    /\ \E trs \in SUBSET Cols :
          /\ toRemoveSet' = trs
          /\ IF SemanticLinkRaises(files, trs)
             THEN /\ pc' = "semantic_link_raised"
                  /\ prot' = prot
             ELSE /\ pc' = "semantic_link_done"
                  /\ prot' = [hier |-> {},
                              link |-> FindProtectedSemanticLinkColumns(files, trs),
                              dax |-> {}, sib |-> {}]
    /\ UNCHANGED <<files, bak, mode, cand, removed, skipped, deletedHier, queue,
                   pending, run, hist>>
    /\ UNCHANGED decisionVars
    /\ UNCHANGED inputVars

NextSemanticLink == ApplyFindProtectedSemanticLinkColumns

SpecSemanticLink == InitSemanticLink /\ [][NextSemanticLink]_vars

\* The candidates that a well-formed annotation under a kept column targets.
WellFormedTargets ==
    {e.to : e \in KeptAnnotations(files, toRemoveSet, "link")} \cap toRemoveSet

\* C27: an annotation that cannot be parsed as structured data is never
\* fatal: the analysis always returns, and what it returns is the candidate
\* targets of every well-formed annotation under a kept column, in every
\* file, whatever malformed annotations the files hold.
C27_MalformedAnnotationNonFatal ==
    /\ pc # "semantic_link_raised"
    /\ pc = "semantic_link_done" => prot.link = WellFormedTargets

\* What holds of the text json.loads rejects: it alone never makes the
\* analysis raise, and the analysis that returns beside it returns the
\* targets of the well-formed annotations.
SemanticLinkInvalidJsonSkipped ==
    /\ pc = "semantic_link_raised" =>
          KeptAnnotations(files, toRemoveSet, "link_scalar") # {}
    /\ pc = "semantic_link_done" => prot.link = WellFormedTargets

SemanticLinkInvalidJsonReached ==
    /\ pc = "semantic_link_done"
    /\ KeptAnnotations(files, toRemoveSet, "link_invalid") # {}
    /\ prot.link # {}

\* ------------------------------------------------------- empty-table prune

\* Nothing is left to commit: the loop over the table files has visited
\* every table, no located block is left in a file, and no variation
\* sub-block or showAsVariationsOnly line is left for the cross-file cascade.
CommitsFinished ==
    /\ queue = << >>
    /\ pending = NoPending
    /\ \A t \in Tables :
          files[t] # NoFile =>
              /\ Located(files[t], t) = {}
              /\ OrphanBlocks(files[t], deletedHier) = {}
    /\ TrulyOrphaned(files, deletedHier) = {}

\* C28: the empty-table prune runs only after every per-file commit and the
\* cross-file cascade have finished; a file is deleted only by the prune,
\* only when it holds no column and no measure declaration, and is then
\* recorded as removed; and when the run ends no file without a column or
\* measure declaration is left.
C28_PruneAfterCommits ==
    [][ /\ (pc = "prune" => CommitsFinished)
        /\ \A t \in Tables :
              (files[t] # NoFile /\ files'[t] = NoFile) =>
                  /\ pc = "prune"
                  /\ files[t].items = {}
                  /\ TableItem(t) \in Range(removed')
        /\ (pc' = "done" /\ run' >= 1) =>
              \A t \in Tables : files'[t] # NoFile => files'[t].items # {}
      ]_vars

\* A run ended in which the cross-file cascade removed a variation and the
\* prune then deleted a table file, and left the file of another table.
C28_Witness ==
    /\ pc = "done"
    /\ \E t \in Tables : TableItem(t) \in Range(removed)
    /\ \E i \in DOMAIN removed : removed[i].block_type = "variation"
    /\ \E t \in Tables : files[t] # NoFile

\* ------------------------------------------------------- backups of a run

\* The files the run has rewritten or deleted.
ChangedInRun == {t \in Tables : files[t] # hist.start[t]}

\* C29: when a run has ended, every file the run rewrote or deleted, a file
\* the prune deleted and a file whose showAsVariationsOnly line was stripped
\* included, has a backup that holds the content the file had when the run
\* started.
C29_ChangedFilesHaveStartBackup ==
    (CleanupStarted /\ pc = "done") =>
        \A t \in ChangedInRun : bak[t] = hist.start[t]

\* --------------------------------------------------- disposition of a run

\* The candidate has a record in the returned list.
Reported(k, list) == \E i \in DOMAIN list : list[i].table = k[1] /\ list[i].name = k[2]

\* C30: when run_tmdl_cleanup returns, every candidate selected for the
\* mode of the run has a record in exactly one of the removed list and the
\* skipped list: not in both, not in neither.
C30_EveryCandidateDisposedOnce ==
    (CleanupStarted /\ pc = "done") =>
        \A k \in Selected(mode) : Reported(k, removed) # Reported(k, skipped)

\* The half that holds in every run: no candidate is reported both removed
\* and skipped.
DisposedAtMostOnce ==
    (CleanupStarted /\ pc = "done") =>
        \A k \in Selected(mode) : ~(Reported(k, removed) /\ Reported(k, skipped))
====
